---- MODULE Spec2Model ----
(***************************************************************************)
(* at.hn: the /user handler of the profile server (fetch-and-cache         *)
(* pipeline), its PQueue dispatcher, the three cache tiers and the         *)
(* username codec.  Modelled from src/unnamed/part_001, lines 366-668.     *)
(*                                                                         *)
(* Time is counted in seconds and advances in steps just longer than       *)
(* REQ_TIMEOUT; what happens between two steps happens at one instant, in  *)
(* any order.  Names are sequences of one-character strings.               *)
(***************************************************************************)
EXTENDS Integers, Sequences, FiniteSets, Bags, TLC

VARIABLES
  readers,   \* bag of the requests suspended in fs.readFile
  waiting,   \* PQueue: the jobs not yet started, in order (queue.size = Len)
  running,   \* PQueue: bag of the jobs started and not yet returned
  short,     \* shortTermCache: key -> entry
  mid,       \* midTermCache: key -> entry
  files,     \* profiles/<md5(key)>.html: key -> content
  unlinks,   \* fs.unlink calls issued and not yet carried out, per key
  out,       \* the response most recently put on the wire
  now,       \* seconds since the process started
  started,   \* jobs the dispatcher has started at the current instant
  late,      \* a job whose requester had been told 202 has written its page through
  cpc, cx, cy, cz, cw,  \* the codec harness: position, input, results
  ckx, cky,             \* the codec harness: the cache keys of two requests
  renderer,  \* the link renderer installed last on the shared marked instance
  rjobs,     \* the render harness: each job's profile, position and rendered link
  obio,      \* the opt-in harness: profileData.about
  opass      \* the opt-in harness: how the test of the bio came out

hvars == <<readers, waiting, running, short, mid, files, unlinks, out, now, started, late>>
cvars == <<cpc, cx, cy, cz, cw, ckx, cky>>
rvars == <<renderer, rjobs>>
ovars == <<obio, opass>>
vars == <<readers, waiting, running, short, mid, files, unlinks, out, now, started, late,
          cpc, cx, cy, cz, cw, ckx, cky, renderer, rjobs, obio, opass>>

----------------------------------------------------------------------------
(* Bounds of the model *)

MaxReqs == 5     \* requests that can be in flight (suspended or with a job) at once
MaxTicks == 1    \* steps of wall-clock time explored
MaxLen == 3      \* longest name given to the codec harness
MaxRenderJobs == 2   \* jobs of the render harness
MaxBio == 5      \* longest bio given to the opt-in harness

(* Program constants *)

CONCURRENCY == 2        \* new PQueue({ concurrency: 2, ... })
INTERVAL == 1           \* new PQueue({ ..., interval: 1000 }), in seconds
QUEUE_LIMIT == 1        \* if (queue.size > 1)
REQ_TIMEOUT == 5        \* const REQ_TIMEOUT = 5000, in seconds
SHORT_TTL == 5          \* shortTermCache ttl: 1000 * 5, in seconds
MID_TTL == 10800        \* midTermCache ttl: 1000 * 60 * 60 * 3, in seconds
NAME_LIMIT == 255       \* user.length < 255
KARMA_LINK_FOLLOW_MIN == 200   \* const KARMA_LINK_FOLLOW_MIN = 200

----------------------------------------------------------------------------
(* The username codec *)

UpperChars == {"A", "B"}
LowerChars == {"a", "b"}
DigitChars == {"0", "1"}
WordChars == UpperChars \cup LowerChars \cup DigitChars \cup {"_"}

toLowerCase(c) == CASE c = "A" -> "a" [] c = "B" -> "b" [] OTHER -> c
toUpperCase(c) == CASE c = "a" -> "A" [] c = "b" -> "B" [] OTHER -> c

encodeChar(c) ==
  IF c \in UpperChars THEN <<"0", ".", toLowerCase(c)>>
  ELSE IF c = "_" THEN <<".", "1", ".">>
  ELSE <<c>>

RECURSIVE encodeUsername(_)
encodeUsername(username) ==
  IF username = <<>> THEN <<>>
  ELSE encodeChar(Head(username)) \o encodeUsername(Tail(username))

\* .replace(/0\.(.)/g, (match, p1) => p1.toUpperCase()): leftmost matches, not overlapping
RECURSIVE replaceZeroDot(_)
replaceZeroDot(s) ==
  IF s = <<>> THEN <<>>
  ELSE IF Len(s) >= 3 /\ s[1] = "0" /\ s[2] = "."
    THEN <<toUpperCase(s[3])>> \o replaceZeroDot(SubSeq(s, 4, Len(s)))
    ELSE <<s[1]>> \o replaceZeroDot(Tail(s))

\* .replace(/\.1\./g, '_')
RECURSIVE replaceDotOneDot(_)
replaceDotOneDot(s) ==
  IF s = <<>> THEN <<>>
  ELSE IF Len(s) >= 3 /\ s[1] = "." /\ s[2] = "1" /\ s[3] = "."
    THEN <<"_">> \o replaceDotOneDot(SubSeq(s, 4, Len(s)))
    ELSE <<s[1]>> \o replaceDotOneDot(Tail(s))

decodeUsername(encoded) == replaceDotOneDot(replaceZeroDot(encoded))

\* the request's own text as the key
rawKey(user) == user
\* const cacheKey = encodeUsername(user)
KeyOf(user) == encodeUsername(user)

----------------------------------------------------------------------------
(* Requests, keys, pages *)

\* One account, whose name needs encoding, stands for the valid names: the
\* tiers then hold one key, far below the LRU size limits (100 and 1000), so
\* no entry is ever evicted for room.
UserB == <<"B">>
NoUser == <<"null">>               \* searchParams.get('user') === null
BadUser == <<"-">>                 \* no word character in it
ValidUsers == {UserB}
Users == ValidUsers \cup {NoUser, BadUser}

Keys == {encodeUsername(u) : u \in ValidUsers}
NoKey == <<>>

NoPage == [kind |-> "none", enc |-> <<>>, dec |-> <<>>, text |-> ""]
\* template({ encodedUsername, decodedUsername, bioHtml, fields })
template(encodedUsername, decodedUsername, bio) ==
  [kind |-> "page", enc |-> encodedUsername, dec |-> decodedUsername, text |-> bio]
\* a page left in profiles/ by an earlier run of the server
OldPage(k) == template(k, decodeUsername(k), "old")
ErrHtml(what) == [kind |-> "error", enc |-> <<>>, dec |-> <<>>, text |-> what]
Redirect(user) == [kind |-> "redirect", enc |-> user, dec |-> <<>>, text |-> ".at.hn"]
NoResponse == [status |-> 0, body |-> NoPage, nth |-> 0]

\* what the upstream call of one job can come back with
Replies == {"fail", "absent", "empty", "nomarker", "optin"}

\* user && /\w/.test(user) && user.length < 255
ValidUser(user) ==
  /\ user # <<>>
  /\ \E i \in 1..Len(user) : user[i] \in WordChars
  /\ Len(user) < NAME_LIMIT

----------------------------------------------------------------------------
(* The LRU tiers: an entry is a page and the seconds it may still be served *)

\* seconds that pass in one Tick: the timers set before it are due after it
\* and the short-term entries written before it are stale
Step == REQ_TIMEOUT + 1

Absent == [page |-> NoPage, left |-> -1]
has(cache, k) == cache[k].left >= 0
get(cache, k) == cache[k].page
set(cache, k, page, ttl) == [cache EXCEPT ![k] = [page |-> page, left |-> ttl]]
delete(cache, k) == [cache EXCEPT ![k] = Absent]
\* Step seconds later: an entry older than its ttl is no longer served
age(cache) ==
  [k \in Keys |-> IF cache[k].left >= Step
                  THEN [cache[k] EXCEPT !.left = @ - Step]
                  ELSE Absent]

----------------------------------------------------------------------------
(* respond / respondError of one request.  st is what they read and write:  *)
(* the request's responseSent flag, the responses it has sent, the wire,    *)
(* and the two in-memory tiers.                                             *)

\* res.status(status).send(html)
resSend(st, status, html) ==
  [st EXCEPT !.sent = TRUE, !.nresp = @ + 1,
             !.out = [status |-> status, body |-> html, nth |-> st.nresp + 1]]

\* respond without the responseSent test
respondUnguarded(st, status, html, cacheKey) ==
  resSend(IF cacheKey # NoKey
          THEN [st EXCEPT !.mid = set(st.mid, cacheKey, html, MID_TTL),
                          !.short = set(st.short, cacheKey, html, SHORT_TTL)]
          ELSE st,
          status, html)

respond(st, status, html, cacheKey) ==
  IF ~st.sent
  THEN resSend(IF cacheKey # NoKey
                THEN [st EXCEPT !.mid = set(st.mid, cacheKey, html, MID_TTL),
                                !.short = set(st.short, cacheKey, html, SHORT_TTL)]
                ELSE st,
                status, html)
  ELSE st

respondError(st, errHtml, status) == respond(st, status, ErrHtml(errHtml), NoKey)

\* a catch block that answers 500 through respond with the cache key
catchErrorCached(st, cacheKey) ==
  respond(st, 500, ErrHtml("cannot see you"), cacheKey)
\* catch (error) { return respondError(`Hmmm, we cannot see you ...`) }:
\* whatever was thrown, the default status of respondError and no cache key
catchError(st, cacheKey) == respondError(st, "cannot see you", 404)

\* a mid-term hit that also sets the short-term tier
midHitPromoted(st, cacheKey) ==
  resSend([st EXCEPT !.short = set(st.short, cacheKey, get(st.mid, cacheKey), SHORT_TTL)],
          200, get(st.mid, cacheKey))
\* res.send(midTermCache.get(cacheKey)); return
midHit(st, cacheKey) == resSend(st, 200, get(st.mid, cacheKey))

\* res.redirect(303, redirect) behind its own responseSent test
redirect(st, user) ==
  IF ~st.sent THEN resSend(st, 303, Redirect(user)) ELSE st

\* what respond sees when a callback of request j runs
\* (out: nothing on the wire yet, and the responses j has sent before)
St(j) == [sent |-> j.sent, nresp |-> j.nresp,
          out |-> [NoResponse EXCEPT !.nth = j.nresp],
          mid |-> mid, short |-> short]

\* the write-through left to respond, which an answered request skips
writeThroughUnlessAnswered(st, cacheKey, html) ==
  IF st.sent THEN st
  ELSE [st EXCEPT !.mid = set(st.mid, cacheKey, html, MID_TTL),
                  !.short = set(st.short, cacheKey, html, SHORT_TTL)]

\* midTermCache.set(cacheKey, html); shortTermCache.set(cacheKey, html)
writeThrough(st, cacheKey, html) ==
  [st EXCEPT !.mid = set(st.mid, cacheKey, html, MID_TTL),
             !.short = set(st.short, cacheKey, html, SHORT_TTL)]

----------------------------------------------------------------------------
(* The dispatcher: new PQueue({ concurrency: 2, interval: 1000 })          *)

\* a request in flight: its inputs, responseSent, the responses it has sent,
\* the seconds left on its setTimeout (-1: none, or fired), where it stands,
\* and the page it has rendered
NewReq(user, refresh) ==
  [user |-> user, refresh |-> refresh, sent |-> FALSE, nresp |-> 0,
   timer |-> -1, pc |-> "arrived", page |-> NoPage]

BagAdd(B, e) == B (+) SetToBag({e})
BagRemove(B, e) == B (-) SetToBag({e})

pending(jobs) == BagCardinality(jobs)

\* The options give interval: 1000 but no intervalCap.  PQueue defaults
\* intervalCap to Infinity and then ignores the interval altogether.
intervalCap == "Infinity"
isIntervalIgnored == intervalCap = "Infinity" \/ INTERVAL = 0
doesIntervalAllowAnother(n) == isIntervalIgnored \/ n < intervalCap
concurrencyUnchecked(jobs) == TRUE
doesConcurrentAllowAnother(jobs) == pending(jobs) < CONCURRENCY

Min(a, b) == IF a < b THEN a ELSE b
Max(a, b) == IF a > b THEN a ELSE b

overloadedOffByOne(size) == size > QUEUE_LIMIT + 1
\* if (queue.size > 1)
overloaded(size) == size > QUEUE_LIMIT

useLowerTiersAlways(refresh) == TRUE
\* if (!refresh): the mid-term tier and the file are consulted
useLowerTiers(refresh) == ~refresh

Q == [waiting |-> waiting, running |-> running, started |-> started]

\* starts the job at the head of the queue if the limits allow it
tryToStartAnother(q) ==
  IF /\ q.waiting # <<>>
     /\ doesIntervalAllowAnother(q.started)
     /\ doesConcurrentAllowAnother(q.running)
  THEN [waiting |-> Tail(q.waiting),
        running |-> BagAdd(q.running, [Head(q.waiting) EXCEPT !.pc = "fetching"]),
        started |-> Min(q.started + 1, CONCURRENCY + 1)]
  ELSE q

\* a request for a key that has a job in the dispatcher joins that job
addCoalesced(q, j) ==
  IF \/ \E i \in 1..Len(q.waiting) : KeyOf(q.waiting[i].user) = KeyOf(j.user)
     \/ \E e \in BagToSet(q.running) : KeyOf(e.user) = KeyOf(j.user)
  THEN q
  ELSE tryToStartAnother(
         [q EXCEPT !.waiting = Append(@, [j EXCEPT !.pc = "waiting", !.timer = REQ_TIMEOUT])])

\* Promise.race([queue.add(fetchProfile), new Promise(... setTimeout ... REQ_TIMEOUT)])
add(q, j) ==
  tryToStartAnother(
    [q EXCEPT !.waiting = Append(@, [j EXCEPT !.pc = "waiting", !.timer = REQ_TIMEOUT])])

\* the job j returned: the next job may start
next(q, j) == tryToStartAnother([q EXCEPT !.running = BagRemove(@, j)])

InFlight == BagCardinality(readers) + Len(waiting) + BagCardinality(running)

\* a setTimeout that is due fires before anything else happens
TimerDue ==
  \/ \E j \in BagToSet(running) : j.timer = 0
  \/ \E i \in 1..Len(waiting) : waiting[i].timer = 0

----------------------------------------------------------------------------
(* The /user handler, one action per stretch of code between two awaits *)

SetWire(st) == out' = st.out /\ mid' = st.mid /\ short' = st.short
SetQueue(q) == waiting' = q.waiting /\ running' = q.running /\ started' = q.started

\* app.get('/user'), up to its first await or its return
Arrive(user, refresh) ==
  /\ ~TimerDue
  /\ UNCHANGED <<files, unlinks, now, late>>
  /\ UNCHANGED <<cvars, rvars, ovars>>
  /\ LET req == NewReq(user, refresh)
     IN
     IF overloaded(Len(waiting))
     THEN /\ SetWire(respondError(St(req), "hammered", 429))
          /\ UNCHANGED <<readers, waiting, running, started>>
     ELSE IF user = NoUser
     THEN \* encodeUsername(null) throws before anything is sent
          /\ out' = NoResponse
          /\ UNCHANGED <<readers, waiting, running, started, mid, short>>
     ELSE IF ~ValidUser(user)
     THEN /\ SetWire(respondError(St(req), "bad request", 400))
          /\ UNCHANGED <<readers, waiting, running, started>>
     ELSE LET cacheKey == KeyOf(user) IN
       IF has(short, cacheKey)
       THEN /\ SetWire(resSend(St(req), 200, get(short, cacheKey)))
            /\ UNCHANGED <<readers, waiting, running, started>>
       ELSE IF useLowerTiers(refresh) /\ has(mid, cacheKey)
       THEN /\ SetWire(midHit(St(req), cacheKey))
            /\ UNCHANGED <<readers, waiting, running, started>>
       ELSE IF useLowerTiers(refresh)
       THEN \* await fs.readFile(filePath, 'utf8')
            /\ InFlight < MaxReqs
            /\ readers' = BagAdd(readers, [req EXCEPT !.pc = "reading"])
            /\ out' = NoResponse
            /\ UNCHANGED <<waiting, running, started, mid, short>>
       ELSE /\ InFlight < MaxReqs
            /\ SetQueue(add(Q, req))
            /\ out' = NoResponse
            /\ UNCHANGED <<readers, mid, short>>

\* how await fs.readFile(filePath, 'utf8') settles: with the content, or
\* throwing an error with this code
readFile(fileContent, eio) ==
  IF eio THEN "EIO" ELSE IF fileContent = NoPage THEN "ENOENT" ELSE "content"

anyErrorIsMiss(code) == TRUE
\* if (err.code !== 'ENOENT') answers 500; ENOENT falls through to the fetch
isNotFound(code) == code = "ENOENT"

\* fs.readFile settles: the file's content, ENOENT, or another error
ReadDone(j, eio) ==
  /\ ~TimerDue
  /\ BagIn(j, readers)
  /\ readers' = BagRemove(readers, j)
  /\ UNCHANGED <<files, unlinks, now, late>>
  /\ UNCHANGED <<cvars, rvars, ovars>>
  /\ LET cacheKey == KeyOf(j.user)
         fileContent == files[cacheKey]
         settled == readFile(fileContent, eio)
     IN IF settled = "content"
        THEN /\ out' = resSend(St(j), 200, fileContent).out
             /\ mid' = set(mid, cacheKey, fileContent, MID_TTL)
             /\ short' = set(short, cacheKey, fileContent, SHORT_TTL)
             /\ UNCHANGED <<waiting, running, started>>
        ELSE IF ~isNotFound(settled)
        THEN /\ SetWire(resSend(St(j), 500, ErrHtml("error 92")))
             /\ UNCHANGED <<waiting, running, started>>
        ELSE /\ SetQueue(add(Q, j))
             /\ out' = NoResponse
             /\ UNCHANGED <<mid, short>>

\* any reply but a passed check clears the key
invalidatesOnFailure(reply) == reply # "optin"
\* the test of line 541 comes out false without throwing: the profile is
\* there and its bio, empty or not, does not match; lines 619-626 are reached
invalidates(reply) == reply \in {"empty", "nomarker"}

RECURSIVE Copies(_, _)
Copies(B, S) ==
  IF S = {} THEN 0
  ELSE LET e == CHOOSE e \in S : TRUE IN B[e] + Copies(B, S \ {e})

\* fetchProfile, from `await fetchData` settling to `await fs.writeFile` or to its return
FetchDone(j, reply) ==
  /\ ~TimerDue
  /\ BagIn(j, running)
  /\ j.pc = "fetching"
  /\ UNCHANGED <<readers, files, now, late>>
  /\ UNCHANGED <<cvars, rvars, ovars>>
  /\ LET cacheKey == KeyOf(j.user)
     IN CASE reply = "optin" ->
               \* the check passes; the page is rendered and the file write begins
               LET responseHtml == template(encodeUsername(j.user),
                                            decodeUsername(j.user), "new")
               IN /\ running' = BagAdd(BagRemove(running, j),
                                  [j EXCEPT !.pc = "writing", !.page = responseHtml])
                  /\ out' = NoResponse
                  /\ UNCHANGED <<waiting, started, mid, short, unlinks>>
          [] invalidates(reply) ->
               \* the bio does not match: clear the caches, then throw into the catch
               LET cleared == [St(j) EXCEPT !.mid = delete(mid, cacheKey),
                                            !.short = delete(short, cacheKey)]
               IN /\ SetWire(catchError(cleared, cacheKey))
                  /\ unlinks' = unlinks \cup {cacheKey}
                  /\ SetQueue(next(Q, j))
          [] OTHER ->
               \* fetchData threw, or profileData.about is null and .match threw
               /\ SetWire(catchError(St(j), cacheKey))
               /\ SetQueue(next(Q, j))
               /\ UNCHANGED unlinks

\* fetchProfile, from `await fs.writeFile` settling to its return
WriteDone(j, ok) ==
  /\ ~TimerDue
  /\ BagIn(j, running)
  /\ j.pc = "writing"
  /\ UNCHANGED <<readers, unlinks, now>>
  /\ UNCHANGED <<cvars, rvars, ovars>>
  /\ LET cacheKey == KeyOf(j.user)
         responseHtml == j.page
     IN IF ok
        THEN LET cached == writeThrough(St(j), cacheKey, responseHtml)
             IN /\ files' = [files EXCEPT ![cacheKey] = responseHtml]
                /\ SetWire(IF j.refresh
                           THEN redirect(cached, j.user)
                           ELSE respond(cached, 200, responseHtml, cacheKey))
                /\ SetQueue(next(Q, j))
                /\ late' = (late \/ j.sent)
        ELSE /\ SetWire(catchError(St(j), cacheKey))
             /\ SetQueue(next(Q, j))
             /\ UNCHANGED <<files, late>>

\* the setTimeout of the race fires while the job is running
TimeoutRunning(j) ==
  /\ BagIn(j, running)
  /\ j.timer = 0
  /\ UNCHANGED <<readers, waiting, started, files, unlinks, now, late>>
  /\ UNCHANGED <<cvars, rvars, ovars>>
  /\ LET st == respondError(St(j), "queued", 202)
     IN /\ SetWire(st)
        /\ running' = BagAdd(BagRemove(running, j),
                        [j EXCEPT !.sent = st.sent, !.nresp = st.nresp, !.timer = -1])

\* the setTimeout of the race fires while the job is still in the queue
TimeoutWaiting(i) ==
  /\ i \in 1..Len(waiting)
  /\ waiting[i].timer = 0
  /\ UNCHANGED <<readers, running, started, files, unlinks, now, late>>
  /\ UNCHANGED <<cvars, rvars, ovars>>
  /\ LET st == respondError(St(waiting[i]), "queued", 202)
     IN /\ SetWire(st)
        /\ waiting' = [waiting EXCEPT ![i].sent = st.sent, ![i].nresp = st.nresp,
                                      ![i].timer = -1]

\* an fs.unlink issued by an invalidation is carried out
UnlinkDone(k) ==
  /\ ~TimerDue
  /\ k \in unlinks
  /\ unlinks' = unlinks \ {k}
  /\ files' = [files EXCEPT ![k] = NoPage]
  /\ out' = NoResponse
  /\ UNCHANGED <<readers, waiting, running, short, mid, now, started, late>>
  /\ UNCHANGED <<cvars, rvars, ovars>>

\* Step seconds pass
elapse(j) == IF j.timer > 0 THEN [j EXCEPT !.timer = Max(0, @ - Step)] ELSE j

elapseAll(B) ==
  IF B = EmptyBag THEN EmptyBag
  ELSE [x \in {elapse(e) : e \in DOMAIN B} |->
          Copies(B, {e \in DOMAIN B : elapse(e) = x})]

Tick ==
  /\ ~TimerDue
  /\ now < MaxTicks * Step
  /\ now' = now + Step
  /\ running' = elapseAll(running)
  /\ waiting' = [i \in 1..Len(waiting) |-> elapse(waiting[i])]
  /\ short' = age(short)
  /\ mid' = age(mid)
  /\ started' = 0
  /\ out' = NoResponse
  /\ UNCHANGED <<readers, files, unlinks, late>>
  /\ UNCHANGED <<cvars, rvars, ovars>>

HInit ==
  /\ readers = EmptyBag
  /\ waiting = <<>>
  /\ running = EmptyBag
  /\ short = [k \in Keys |-> Absent]
  /\ mid = [k \in Keys |-> Absent]
  /\ files \in {[k \in Keys |-> NoPage], [k \in Keys |-> OldPage(k)]}
  /\ unlinks = {}
  /\ out = NoResponse
  /\ now = 0
  /\ started = 0
  /\ late = FALSE

CodecIdle ==
  /\ cpc = "off" /\ cx = <<>> /\ cy = <<>> /\ cz = <<>> /\ cw = <<>>
  /\ ckx = <<>> /\ cky = <<>>

RenderIdle == renderer = <<>> /\ rjobs = <<>>

OptInIdle == obio = <<>> /\ opass = "off"

Init == HInit /\ CodecIdle /\ RenderIdle /\ OptInIdle

Next ==
  \/ \E user \in Users, refresh \in BOOLEAN : Arrive(user, refresh)
  \/ \E j \in BagToSet(readers), eio \in BOOLEAN : ReadDone(j, eio)
  \/ \E j \in BagToSet(running), reply \in Replies : FetchDone(j, reply)
  \/ \E j \in BagToSet(running), ok \in BOOLEAN : WriteDone(j, ok)
  \/ \E j \in BagToSet(running) : TimeoutRunning(j)
  \/ \E i \in 1..Len(waiting) : TimeoutWaiting(i)
  \/ \E k \in Keys : UnlinkDone(k)
  \/ Tick

Spec == Init /\ [][Next]_vars

----------------------------------------------------------------------------
(* The handler started again after a crash in the middle of fs.writeFile,   *)
(* which neither writes to a temporary file nor syncs: the file of the key  *)
(* is empty or holds the beginning of the page.                             *)

EmptyFile == [kind |-> "empty", enc |-> <<>>, dec |-> <<>>, text |-> ""]
PartialPage(k) == [kind |-> "partial", enc |-> k, dec |-> decodeUsername(k), text |-> "old"]
Damaged(html) == html.kind \in {"empty", "partial"}

InitCrashed ==
  /\ readers = EmptyBag
  /\ waiting = <<>>
  /\ running = EmptyBag
  /\ short = [k \in Keys |-> Absent]
  /\ mid = [k \in Keys |-> Absent]
  /\ files \in {[k \in Keys |-> EmptyFile], [k \in Keys |-> PartialPage(k)]}
  /\ unlinks = {}
  /\ out = NoResponse
  /\ now = 0
  /\ started = 0
  /\ late = FALSE
  /\ CodecIdle /\ RenderIdle /\ OptInIdle

SpecCrashed == InitCrashed /\ [][Next]_vars

----------------------------------------------------------------------------
(* The handler with history.  The text of a page tells "new", rendered from  *)
(* the profile as it stands, from "stale", rendered from a profile fetched   *)
(* before a job found the account opted out: when a job finds that for key  *)
(* k, the pages that other jobs for k have rendered and are still writing    *)
(* to the file become stale.  They are the same bytes.                       *)

outdate(e, k) ==
  IF e.pc = "writing" /\ KeyOf(e.user) = k THEN [e EXCEPT !.page.text = "stale"] ELSE e

outdateAll(B, k) ==
  IF B = EmptyBag THEN EmptyBag
  ELSE [x \in {outdate(e, k) : e \in DOMAIN B} |->
          Copies(B, {e \in DOMAIN B : outdate(e, k) = x})]

\* FetchDone, recording the history when it invalidates
FetchDoneTracked(j, reply) ==
  IF invalidates(reply)
  THEN /\ ~TimerDue
       /\ BagIn(j, running)
       /\ j.pc = "fetching"
       /\ UNCHANGED <<readers, files, now, late>>
       /\ UNCHANGED <<cvars, rvars, ovars>>
       /\ LET cacheKey == KeyOf(j.user)
              cleared == [St(j) EXCEPT !.mid = delete(mid, cacheKey),
                                       !.short = delete(short, cacheKey)]
          IN /\ SetWire(catchError(cleared, cacheKey))
             /\ unlinks' = unlinks \cup {cacheKey}
             /\ SetQueue(next([Q EXCEPT !.running = outdateAll(@, cacheKey)], j))
  ELSE FetchDone(j, reply)

NextTracked ==
  \/ \E user \in Users, refresh \in BOOLEAN : Arrive(user, refresh)
  \/ \E j \in BagToSet(readers), eio \in BOOLEAN : ReadDone(j, eio)
  \/ \E j \in BagToSet(running), reply \in Replies : FetchDoneTracked(j, reply)
  \/ \E j \in BagToSet(running), ok \in BOOLEAN : WriteDone(j, ok)
  \/ \E j \in BagToSet(running) : TimeoutRunning(j)
  \/ \E i \in 1..Len(waiting) : TimeoutWaiting(i)
  \/ \E k \in Keys : UnlinkDone(k)
  \/ Tick

SpecTracked == Init /\ [][NextTracked]_vars

----------------------------------------------------------------------------
(* The codec harness: a name is encoded, decoded again and encoded again *)

RECURSIVE NamesUpTo(_)
NamesUpTo(n) ==
  IF n = 0 THEN {<<>>}
  ELSE LET shorter == NamesUpTo(n - 1)
       IN shorter \cup {Append(x, c) : x \in shorter, c \in WordChars}

CodecInit ==
  /\ HInit
  /\ cpc = "input" /\ cx \in NamesUpTo(MaxLen)
  /\ cy = <<>> /\ cz = <<>> /\ cw = <<>>
  /\ ckx = <<>> /\ cky = <<>>
  /\ RenderIdle /\ OptInIdle

CodecEncode ==
  /\ cpc = "input"
  /\ cy' = encodeUsername(cx)
  /\ cpc' = "encoded"
  /\ UNCHANGED <<cx, cz, cw, ckx, cky>>
  /\ UNCHANGED <<hvars, rvars, ovars>>

CodecDecode ==
  /\ cpc = "encoded"
  /\ cz' = decodeUsername(cy)
  /\ cpc' = "decoded"
  /\ UNCHANGED <<cx, cy, cw, ckx, cky>>
  /\ UNCHANGED <<hvars, rvars, ovars>>

CodecReencode ==
  /\ cpc = "decoded"
  /\ cw' = encodeUsername(cz)
  /\ cpc' = "done"
  /\ UNCHANGED <<cx, cy, cz, ckx, cky>>
  /\ UNCHANGED <<hvars, rvars, ovars>>

\* the cache keys of a request made with the name as given and of a request
\* made with its encoded form
CodecKeys ==
  /\ cpc = "encoded"
  /\ ckx' = KeyOf(cx)
  /\ cky' = KeyOf(cy)
  /\ cpc' = "keys"
  /\ UNCHANGED <<cx, cy, cz, cw>>
  /\ UNCHANGED <<hvars, rvars, ovars>>

CodecNext == CodecEncode \/ CodecDecode \/ CodecReencode \/ CodecKeys

SpecCodec == CodecInit /\ [][CodecNext]_vars

----------------------------------------------------------------------------
(* The render harness: jobs for accounts of different karma render their    *)
(* bios through the one marked instance of the process                      *)

RenderJobs == 1..MaxRenderJobs
Karmas == {0, KARMA_LINK_FOLLOW_MIN - 1, KARMA_LINK_FOLLOW_MIN,
           KARMA_LINK_FOLLOW_MIN + 1}
NoLink == [href |-> ""]

\* the link renderer of marked.use({ renderer: { link } }), closed over karma
link(karma) ==
  [href |-> "h", title |-> "", target |-> "_blank",
   rel |-> IF karma > KARMA_LINK_FOLLOW_MIN
           THEN "noopener noreferrer "
           ELSE "noopener noreferrer nofollow"]

\* marked(...): a link of the bio goes through the renderer installed last
\* (installed: the karma its closure holds, or none installed yet)
marked(installed) ==
  IF installed = <<>> THEN [href |-> "h", title |-> ""] ELSE link(installed[1])

\* sanitizeHtml is given allowedTags only, so its own allowedAttributes stay in
\* force: for a they are href, name and target
allowedAttributes == {"href", "name", "target"}

\* sansHtml(html, tags): tags outside tags and attributes outside
\* allowedAttributes are dropped
sansHtml(html, tags) ==
  IF "a" \in tags
  THEN [at \in DOMAIN html \cap allowedAttributes |-> html[at]]
  ELSE NoLink

\* the tags fetchProfile allows in the rendered bio
bioTags == {"a", "b", "p", "img"}

RenderInit ==
  /\ HInit /\ CodecIdle /\ OptInIdle
  /\ renderer = <<>>
  /\ rjobs \in [RenderJobs -> {[pc |-> "fetching", karma |-> k, link |-> NoLink] : k \in Karmas}]

\* fetchProfile, from `await fetchData` settling with an opted-in profile to
\* `await fs.writeFile`: marked.use, marked and sansHtml run without an await
RenderBio(i) ==
  /\ rjobs[i].pc = "fetching"
  /\ LET karma == rjobs[i].karma
         installed == <<karma>>
         bioHtml == sansHtml(marked(installed), bioTags)
     IN /\ renderer' = installed
        /\ rjobs' = [rjobs EXCEPT ![i].pc = "writing", ![i].link = bioHtml]
  /\ UNCHANGED <<hvars, cvars, ovars>>

\* fs.writeFile settles and the job returns
RenderWritten(i) ==
  /\ rjobs[i].pc = "writing"
  /\ rjobs' = [rjobs EXCEPT ![i].pc = "done"]
  /\ UNCHANGED <<hvars, cvars, ovars, renderer>>

RenderNext == \E i \in RenderJobs : RenderBio(i) \/ RenderWritten(i)

SpecRender == RenderInit /\ [][RenderNext]_vars

----------------------------------------------------------------------------
(* The opt-in harness: the test of line 541 on a bio.  A bio is a sequence   *)
(* of single characters and of the words "at" and "hn".                      *)

BioChars == {"b", "B", "0", ".", "x"}
BioWords == {"at", "hn"}

RECURSIVE BiosUpTo(_)
BiosUpTo(n) ==
  IF n = 0 THEN {<<>>}
  ELSE LET shorter == BiosUpTo(n - 1)
       IN shorter \cup {Append(x, c) : x \in shorter, c \in BioChars \cup BioWords}

\* a pattern is a sequence of sets: what each of its places accepts
\* an unescaped . accepts any one character
AnyChar == BioChars
\* the i flag
caseFold(c) == {toLowerCase(c), toUpperCase(c)}
\* a name spliced into the RegExp source as it is: its dots are wildcards
namePattern(name) ==
  [i \in 1..Len(name) |-> IF name[i] = "." THEN AnyChar ELSE caseFold(name[i])]

\* RegExp(`(<p>)?\\s*?(https?://)?(${decoded}|${encoded}).at.hn\\s*(</p>)?`, 'i'),
\* one alternative of the name; the groups around it all match the empty string
userAddrCheckR(name) == namePattern(name) \o <<AnyChar, {"at"}, AnyChar, {"hn"}>>

matchesAt(pattern, str, i) ==
  /\ i + Len(pattern) - 1 <= Len(str)
  /\ \A k \in 1..Len(pattern) : str[i + k - 1] \in pattern[k]

\* str.match(pattern) is not null
match(str, pattern) == \E i \in 1..Len(str) : matchesAt(pattern, str, i)

\* profileData.about.match(userAddrCheckR), for a profile that has a username
optInCheck(user, about) ==
  \/ match(about, userAddrCheckR(decodeUsername(user)))
  \/ match(about, userAddrCheckR(encodeUsername(user)))

OptInInit ==
  /\ HInit /\ CodecIdle /\ RenderIdle
  /\ obio \in BiosUpTo(MaxBio)
  /\ opass = "pending"

OptInTest ==
  /\ opass = "pending"
  /\ opass' = IF optInCheck(UserB, obio) THEN "pass" ELSE "fail"
  /\ UNCHANGED <<hvars, cvars, rvars, obio>>

SpecOptIn == OptInInit /\ [][OptInTest]_vars

----------------------------------------------------------------------------
(* Properties *)

FreshPage(user) == template(encodeUsername(user), decodeUsername(user), "new")
Jobs == BagToSet(running) \cup {waiting[i] : i \in 1..Len(waiting)}
InFlightReqs == Jobs \cup BagToSet(readers)
Ok200(html) == [status |-> 200, body |-> html, nth |-> 1]
NoneEnqueued == waiting' = waiting /\ running' = running /\ readers' = readers

\* C1: whatever the order of the job's completion and the 5 s timeout, a request
\* sends at most one response.
C1_AtMostOneResponse ==
  /\ out.nth <= 1
  /\ \A j \in InFlightReqs : j.nresp <= 1

\* a callback ran for a request that had been answered before, and sent nothing
C1_Witness == out.status = 0 /\ out.nth = 1

\* C2: a request that arrives while more than 1 job is waiting is answered 429;
\* no job is enqueued for it and no cache tier changes or is served.
C2_Overloaded429 ==
  [][\A user \in Users, refresh \in BOOLEAN :
       (Len(waiting) > 1 /\ Arrive(user, refresh)) =>
          /\ out' = [status |-> 429, body |-> ErrHtml("hammered"), nth |-> 1]
          /\ NoneEnqueued
          /\ UNCHANGED <<short, mid, files, unlinks>>]_vars

C2_Witness == out.status = 429 /\ Len(waiting) > 1

\* C3: a job not finished 5 s after it was handed to the dispatcher gets its
\* requester a 202 and is not cancelled; once it has completed successfully, a
\* later non-refresh request for the key is answered from the cache with the
\* freshly rendered page and enqueues nothing.
C3_TimeoutThenCached ==
  [][/\ \A j \in BagToSet(running) :
          TimeoutRunning(j) =>
            out'.status = 202 /\ BagCardinality(running') = BagCardinality(running)
     /\ \A i \in 1..Len(waiting) :
          TimeoutWaiting(i) => out'.status = 202 /\ Len(waiting') = Len(waiting)
     /\ \A j \in BagToSet(running) :
          (j.sent /\ WriteDone(j, TRUE)) =>
            has(short', KeyOf(j.user)) /\ get(short', KeyOf(j.user)) = j.page
     /\ \A user \in ValidUsers :
          ( /\ late
            /\ \/ has(short, KeyOf(user)) /\ get(short, KeyOf(user)) = FreshPage(user)
               \/ ~has(short, KeyOf(user)) /\ has(mid, KeyOf(user))
                    /\ get(mid, KeyOf(user)) = FreshPage(user)
            /\ Arrive(user, FALSE) ) =>
            out' = Ok200(FreshPage(user)) /\ NoneEnqueued]_vars

\* C4: never more than 2 fetch jobs executing.
C4_ConcurrencyCap == BagCardinality(running) <= 2

\* the cap binds: two jobs run and another waits
C4_Witness == BagCardinality(running) = 2 /\ Len(waiting) > 0

\* C5: at most 2 jobs are started in any 1-second interval (started counts the
\* starts at one instant, which lie within one interval).
C5_StartsPerInterval == started <= 2

\* C6: a job whose write completes has the rendered page in the file, the
\* mid-term and the short-term tier under the request's key, whether or not the
\* requester was already answered.
C6_WriteThrough ==
  [][\A j \in BagToSet(running) :
       WriteDone(j, TRUE) =>
         /\ files'[KeyOf(j.user)] = j.page
         /\ has(mid', KeyOf(j.user)) /\ get(mid', KeyOf(j.user)) = j.page
         /\ has(short', KeyOf(j.user)) /\ get(short', KeyOf(j.user)) = j.page]_vars

\* the job of a request answered 202 has just written its page through
C6_Witness ==
  /\ late /\ out.status = 0 /\ out.nth = 1
  /\ \E user \in ValidUsers :
       /\ files[KeyOf(user)] = FreshPage(user)
       /\ mid[KeyOf(user)] = [page |-> FreshPage(user), left |-> MID_TTL]
       /\ short[KeyOf(user)] = [page |-> FreshPage(user), left |-> SHORT_TTL]

\* C7: a job that reaches the profile and finds no marker in the bio (also an
\* empty or absent bio) removes the key from the short-term and mid-term tiers,
\* deletes the file if there is one, and answers 404 if nothing was sent yet.
C7_NotOptedInInvalidates ==
  [][\A j \in BagToSet(running), reply \in {"absent", "empty", "nomarker"} :
       FetchDone(j, reply) =>
         /\ ~has(short', KeyOf(j.user))
         /\ ~has(mid', KeyOf(j.user))
         /\ files[KeyOf(j.user)] # NoPage => KeyOf(j.user) \in unlinks'
         /\ ~j.sent => out'.status = 404]_vars

\* C8: a request for a key with an unexpired short-term entry is answered with
\* the cached bytes and enqueues nothing, whatever the backlog.
C8_ShortTermHit ==
  [][\A user \in ValidUsers, refresh \in BOOLEAN :
       (has(short, KeyOf(user)) /\ Arrive(user, refresh)) =>
          out' = Ok200(get(short, KeyOf(user))) /\ NoneEnqueued]_vars

\* C9: an admitted refresh request never uses the mid-term tier or the file:
\* without an unexpired short-term entry it enqueues a job, whatever those
\* tiers hold; with one it is served from it and enqueues nothing.
C9_RefreshBypass ==
  [][\A user \in ValidUsers :
       (Len(waiting) <= 1 /\ Arrive(user, TRUE)) =>
          /\ readers' = readers
          /\ IF has(short, KeyOf(user))
             THEN out' = Ok200(get(short, KeyOf(user))) /\ NoneEnqueued
             ELSE /\ out'.status = 0
                  /\ Len(waiting') + BagCardinality(running')
                       = Len(waiting) + BagCardinality(running) + 1]_vars

\* a refresh request was enqueued after the short-term entry had expired,
\* while the mid-term tier and the file held the key
C9_Witness ==
  /\ now = Step
  /\ \E j \in Jobs :
       /\ j.refresh /\ j.timer = REQ_TIMEOUT
       /\ ~has(short, KeyOf(j.user))
       /\ mid[KeyOf(j.user)].left = MID_TTL - Step
       /\ files[KeyOf(j.user)] # NoPage

\* C10: decodeUsername(encodeUsername(x)) = x for every name x over the alphabet,
\* and encodeUsername(decodeUsername(y)) = y for y = encodeUsername(x).
C10_RoundTrip ==
  /\ cpc \in {"decoded", "done"} => cz = cx
  /\ cpc = "done" => cw = cy

\* C11: a request made with a name and a request made with encodeUsername of
\* that name use the same key (hence the same file name) in all three tiers.
C11_CanonicalKey == cpc = "keys" => ckx = cky /\ ckx = cy

\* the two requests spell the name differently
C11_Witness == cpc = "keys" /\ cx # cy /\ ckx = cky

\* C12: a job that fails because the upstream is unreachable or answers with a
\* non-success status, before the deadline, gets its requester a 500, not the
\* 404 of a profile without the marker.
C12_UpstreamFailure500 ==
  [][\A j \in BagToSet(running) :
       (~j.sent /\ FetchDone(j, "fail")) => out'.status = 500]_vars

\* C13: whatever is stored under a key in the short-term tier, the mid-term
\* tier or the file is a page rendered for that key; no error body is stored.
Rendered(k, html) == html.kind = "page" /\ html.enc = k
C13_OnlyPagesStored ==
  \A k \in Keys :
    /\ has(short, k) => Rendered(k, get(short, k))
    /\ has(mid, k) => Rendered(k, get(mid, k))
    /\ files[k] # NoPage => Rendered(k, files[k])

\* a job has just failed with an error page while the key is cached
C13_Witness ==
  /\ out.status = 404 /\ out.body.kind = "error"
  /\ \E k \in Keys : has(mid, k) /\ files[k] # NoPage

\* C14: a request whose name is missing or invalid, arriving when the backlog
\* admits it, is answered 400, enqueues nothing and changes no tier.
C14_BadInput400 ==
  [][\A user \in Users \ ValidUsers, refresh \in BOOLEAN :
       (~overloaded(Len(waiting)) /\ Arrive(user, refresh)) =>
          /\ out' = [status |-> 400, body |-> ErrHtml("bad request"), nth |-> 1]
          /\ NoneEnqueued
          /\ UNCHANGED <<short, mid, files, unlinks>>]_vars

\* C15: a file read that fails with an error other than not-found answers 500
\* and enqueues nothing; a file that is not there sends the request to the
\* dispatcher.
C15_StorageFailure500 ==
  [][\A j \in BagToSet(readers) :
       /\ ReadDone(j, TRUE) =>
            /\ out' = [status |-> 500, body |-> ErrHtml("error 92"), nth |-> 1]
            /\ waiting' = waiting /\ running' = running
            /\ UNCHANGED <<short, mid, files, unlinks>>
       /\ (files[KeyOf(j.user)] = NoPage /\ ReadDone(j, FALSE)) =>
            /\ out'.status = 0
            /\ Len(waiting') + BagCardinality(running')
                 = Len(waiting) + BagCardinality(running) + 1]_vars

C15_Witness == out = [status |-> 500, body |-> ErrHtml("error 92"), nth |-> 1]

\* C16: every request is answered in the end.  What a finite run can refute of
\* it: a step of the handler leaves its request answered or still in flight, a
\* job that returns leaves its requester answered, and an unanswered request
\* with a job has its timeout armed.
C16_EveryRequestAnswered ==
  [][/\ \A user \in Users, refresh \in BOOLEAN :
          Arrive(user, refresh) => (out'.status # 0 \/ InFlight' = InFlight + 1)
     /\ \A j \in BagToSet(readers), eio \in BOOLEAN :
          ReadDone(j, eio) => (out'.status # 0 \/ InFlight' = InFlight)
     /\ \A j \in BagToSet(running) :
          ((\E reply \in Replies : FetchDone(j, reply)) \/ (\E ok \in BOOLEAN : WriteDone(j, ok)))
            => (InFlight' = InFlight \/ j.sent \/ out'.status # 0)
     /\ (\A j \in Jobs : ~j.sent => j.timer >= 0)']_vars

\* C17: a refresh request whose job succeeds before the deadline is answered
\* 303 with the encoded name as the host of the target.
C17_RedirectCanonical ==
  [][\A j \in BagToSet(running) :
       (j.refresh /\ ~j.sent /\ WriteDone(j, TRUE)) =>
          out' = [status |-> 303, body |-> Redirect(encodeUsername(j.user)), nth |-> 1]]_vars

\* C18: whatever the order in which jobs install their link renderers, the
\* link in the page rendered for an account carries nofollow if and only if
\* that account's karma is not greater than 200.
HasNofollow(a) == "rel" \in DOMAIN a /\ a.rel = "noopener noreferrer nofollow"
C18_NofollowIffLowKarma ==
  \A i \in DOMAIN rjobs :
    rjobs[i].pc # "fetching" =>
      (HasNofollow(rjobs[i].link) <=> rjobs[i].karma <= KARMA_LINK_FOLLOW_MIN)

\* C19: whatever the interleaving of arriving requests, a job is enqueued only
\* while the backlog still admits it, and never more than 2 jobs are waiting.
C19_AdmissionAtomic ==
  [][/\ (Len(waiting') + BagCardinality(running')
           > Len(waiting) + BagCardinality(running)) => ~overloaded(Len(waiting))
     /\ Len(waiting') <= 2]_vars

\* C20: once a job has found the account of key k opted out and the
\* invalidation is done (caches cleared, file unlinked), no request arriving
\* later is served a page rendered from a profile fetched before that.
C20_NoStaleAfterInvalidation ==
  [][\A user \in ValidUsers, refresh \in BOOLEAN :
       (unlinks = {} /\ Arrive(user, refresh)) => out'.body.text # "stale"]_vars

\* C21: a non-refresh request that finds the file of its key empty or cut
\* short treats it as a miss: the content is not served, not copied into the
\* mid-term or short-term tier, and a job is enqueued.
C21_DamagedFileIsMiss ==
  [][\A j \in BagToSet(readers) :
       (Damaged(files[KeyOf(j.user)]) /\ ReadDone(j, FALSE)) =>
          /\ out'.status = 0
          /\ mid' = mid /\ short' = short
          /\ Len(waiting') + BagCardinality(running')
               = Len(waiting) + BagCardinality(running) + 1]_vars

\* C22: requests are not coalesced.  A request for a key that already has a
\* job in the dispatcher, when it is admitted and misses (at once, or when its
\* file read ends unanswered), enqueues a job of its own; a job that returns
\* ends no other job.
JobCount == Len(waiting) + BagCardinality(running)
SameKeyJob(user) == \E j \in Jobs : KeyOf(j.user) = KeyOf(user)
C22_NoCoalescing ==
  [][/\ \A user \in ValidUsers :
          ( /\ SameKeyJob(user)
            /\ ~overloaded(Len(waiting)) /\ ~has(short, KeyOf(user))
            /\ Arrive(user, TRUE) ) => JobCount' = JobCount + 1
     /\ \A r \in BagToSet(readers) :
          ( /\ readers' = BagRemove(readers, r) /\ out'.status = 0
            /\ SameKeyJob(r.user) ) => JobCount' = JobCount + 1
     /\ JobCount' < JobCount => JobCount' = JobCount - 1]_vars

\* two jobs for one key, each with the page it rendered from its own fetch
C22_Witness ==
  \E j \in BagToSet(running) :
    /\ j.pc = "writing"
    /\ \/ running[j] >= 2
       \/ \E e \in BagToSet(running) :
            e # j /\ e.pc = "writing" /\ KeyOf(e.user) = KeyOf(j.user)

\* C23: the file of a key is removed only by the unlink that a job issued when
\* it found the account opted out; a cache hit, a timeout, a rejection, a bad
\* request, an upstream failure or the passage of time removes no file and
\* issues no unlink.
C23_OnlyInvalidationDeletes ==
  [][/\ \A k \in Keys :
          (files[k] # NoPage /\ (files'[k] = NoPage \/ Damaged(files'[k]))) =>
             k \in unlinks
     /\ \A k \in Keys :
          (k \notin unlinks /\ k \in unlinks') =>
             \E j \in BagToSet(running), reply \in {"empty", "nomarker"} :
                KeyOf(j.user) = k /\ FetchDone(j, reply)
     /\ (unlinks' # unlinks \/ files' # files) =>
          ~\E j \in BagToSet(running), reply \in {"fail", "absent"} : FetchDone(j, reply)]_vars

\* a job has just found the opt-out and issued the unlink of a file that is there
C23_Witness ==
  \E k \in Keys :
    /\ k \in unlinks /\ files[k] # NoPage
    /\ ~has(mid, k) /\ ~has(short, k)
    /\ out.status = 404 /\ out.nth = 1

\* C24: an admitted non-refresh request that misses the short-term tier and
\* hits the mid-term tier is answered from it, enqueues nothing, and leaves the
\* short-term tier and the file as they are.
C24_MidHitNotPromoted ==
  [][\A user \in ValidUsers :
       ( /\ ~overloaded(Len(waiting))
         /\ ~has(short, KeyOf(user)) /\ has(mid, KeyOf(user))
         /\ Arrive(user, FALSE) ) =>
            /\ out' = Ok200(get(mid, KeyOf(user)))
            /\ NoneEnqueued
            /\ UNCHANGED <<short, mid, files, unlinks>>]_vars

\* a page was just served from the mid-term tier, the short-term tier holding none
C24_Witness ==
  \E k \in Keys :
    /\ ~has(short, k) /\ has(mid, k)
    /\ out = Ok200(get(mid, k))

\* C25: a non-refresh request whose file read succeeds is answered with the
\* file's content, enqueues nothing, and sets that content in the mid-term and
\* the short-term tier; a request for the key within the short-term window is
\* then served that content from the short-term tier.
C25_FileHitPromoted ==
  [][/\ \A r \in BagToSet(readers) :
          (files[KeyOf(r.user)] # NoPage /\ ReadDone(r, FALSE)) =>
             /\ out' = Ok200(files[KeyOf(r.user)])
             /\ waiting' = waiting /\ running' = running
             /\ mid'[KeyOf(r.user)] = [page |-> files[KeyOf(r.user)], left |-> MID_TTL]
             /\ short'[KeyOf(r.user)] = [page |-> files[KeyOf(r.user)], left |-> SHORT_TTL]
     /\ \A user \in ValidUsers :
          ( /\ has(short, KeyOf(user)) /\ get(short, KeyOf(user)) = OldPage(KeyOf(user))
            /\ Arrive(user, FALSE) ) =>
               out' = Ok200(OldPage(KeyOf(user))) /\ NoneEnqueued]_vars

\* C26: the opt-in test passes if and only if the bio holds, in any case, the
\* decoded or the encoded name followed at once by the literal text .at.hn.
literalPattern(name) ==
  [i \in 1..Len(name) |-> caseFold(name[i])] \o <<{"."}, {"at"}, {"."}, {"hn"}>>
literalRef(user, about) ==
  \/ match(about, literalPattern(decodeUsername(user)))
  \/ match(about, literalPattern(encodeUsername(user)))
C26_OptInIffLiteralRef ==
  opass \in {"pass", "fail"} => (opass = "pass" <=> literalRef(UserB, obio))

====
